---- MODULE Spec2Model ----
(***************************************************************************)
(* ez_fs: a lazily scanned directory tree (EzDir / EzEntry, src/src/dir.rs) *)
(* and an open-file wrapper (EzFile, src/src/file.rs), modelled over an     *)
(* abstract platform filesystem.                                            *)
(*                                                                          *)
(* A path is a sequence of child names.  A child name doubles as the        *)
(* position of the child in the platform's enumeration order, so read_dir   *)
(* lists the children of a directory by ascending name.                     *)
(***************************************************************************)
EXTENDS Integers, Sequences, FiniteSets, TLC

\* ------------------------------------------------------------------ bounds
MaxWidth == 2
MaxDepth == 3
MaxNodes == 3
MaxWalkDepth == 2
MaxIdx == 2
MaxLen == 2
MaxByte == 1
Chunk == 1

\* usize::MAX, the bound walk(0) hands to fill.  The model checker's integers
\* are 32 bits wide, so the largest of them stands for it; its only use is
\* the comparison curr < max - 1 with curr at most the depth of the tree.
USIZE_MAX == 2147483647

VARIABLES
  fs,        \* the platform filesystem: kind of every path
  dir,       \* the EzDir the caller holds (held = FALSE: none)
  stale,     \* the filesystem changed since the held node's last scan
  panicked,  \* the thread panicked (process unwinding)
  last,      \* the most recent step: operation, argument, result, node before it
  disk,      \* the platform's file at the EzFile's path: existence, bytes, mode bits
  file,      \* the EzFile the caller holds (held = FALSE: none)
  trail,     \* how far the calls on the EzFile follow create, write_all, to_read
  calls      \* a walk in progress: the call stack of walk and fill

vars == <<fs, dir, stale, panicked, last, disk, file, trail, calls>>
dirvars == <<fs, dir, stale, panicked>>
filevars == <<disk, file, trail>>

\* ------------------------------------------------------- platform filesystem
Names == 1..MaxWidth
Paths == UNION {[1..n -> Names] : n \in 0..MaxDepth}
Root == << >>

\* "file": regular file; "nofile": regular file that cannot be opened for
\* reading; "dir": directory; "nodir": directory whose children cannot be
\* listed; "symlink": symbolic link to the root directory (an ancestor)
Kinds == {"absent", "file", "nofile", "dir", "nodir", "symlink"}
FileKinds == {"file", "nofile"}
DirKinds == {"dir", "nodir"}

Front(p) == SubSeq(p, 1, Len(p) - 1)
Last(p) == p[Len(p)]

NotFound == [ok |-> FALSE, at |-> Root]

\* path resolution following every symbolic link (stat, open, read_dir):
\* one step from the resolved parent d along the name c
Lookup(f, d, c) ==
  IF ~d.ok \/ f[d.at] \notin DirKinds \/ Len(d.at) >= MaxDepth THEN NotFound
  ELSE IF f[d.at \o <<c>>] = "symlink" THEN [ok |-> TRUE, at |-> Root]
  ELSE IF f[d.at \o <<c>>] = "absent" THEN NotFound
  ELSE [ok |-> TRUE, at |-> d.at \o <<c>>]

RECURSIVE Target(_, _)
Target(f, p) ==
  IF p = Root THEN [ok |-> TRUE, at |-> Root]
  ELSE Lookup(f, Target(f, Front(p)), Last(p))

KindAt(f, t) == IF t.ok THEN f[t.at] ELSE "absent"

\* stat: the kind of what p refers to, links followed
Kind(f, p) == KindAt(f, Target(f, p))

LKindIn(f, d, c) ==
  IF ~d.ok \/ f[d.at] \notin DirKinds \/ Len(d.at) >= MaxDepth THEN "absent"
  ELSE f[d.at \o <<c>>]

\* lstat: the kind of p itself, a final symbolic link not followed
LKind(f, p) ==
  IF p = Root THEN f[Root] ELSE LKindIn(f, Target(f, Front(p)), Last(p))

\* Path::is_dir
is_dir(f, p) == Kind(f, p) \in DirKinds

RECURSIVE ListFrom(_, _, _, _)
ListFrom(f, t, p, c) ==
  IF c > MaxWidth \/ Len(t) >= MaxDepth THEN << >>
  ELSE (IF f[t \o <<c>>] # "absent" THEN << p \o <<c>> >> ELSE << >>)
       \o ListFrom(f, t, p, c + 1)

\* fs::read_dir on p, which resolves to t: the DirEntry paths of the children
\* (each is p joined with the child's name), or the io::Error
ReadDirAt(f, p, t) ==
  IF KindAt(f, t) = "dir"
  THEN [ok |-> TRUE, err |-> "", val |-> ListFrom(f, t.at, p, 1)]
  ELSE [ok |-> FALSE, val |-> << >>,
        err |-> IF KindAt(f, t) = "nodir" THEN "PermissionDenied"
                ELSE IF KindAt(f, t) = "absent" THEN "NotFound"
                ELSE "NotADirectory"]
read_dir(f, p) == ReadDirAt(f, p, Target(f, p))

\* DirEntry::file_type (does not follow a symbolic link)
file_type(f, q) == LKind(f, q)

\* ------------------------------------------------------------- data model
\* Option<T>
None == [some |-> FALSE, val |-> << >>]
Some(v) == [some |-> TRUE, val |-> v]

\* EzEntry::File(Box<EzFile>) / EzEntry::Dir(EzDir)
FileEntry(p) == [tag |-> "File", path |-> p, entries |-> None]
DirEntry(d) == [tag |-> "Dir", path |-> d.path, entries |-> d.entries]
\* the EzDir a Dir entry owns
DirOf(e) == [path |-> e.path, entries |-> e.entries]

Ok(v) == [ok |-> TRUE, val |-> v, err |-> ""]
Err(kind) == [ok |-> FALSE, val |-> None, err |-> kind]

\* io_err!: io::Error::new(io::ErrorKind::Other, msg)
io_err == Err("Other")

\* File::open on a path of kind k
OpenKind(k, p) ==
  IF k \in {"file", "dir"} THEN Ok(p)
  ELSE IF k \in {"nofile", "nodir"} THEN Err("PermissionDenied")
  ELSE Err("NotFound")

\* EzFile::open, as far as the tree is concerned: Ok(path) or the io::Error
EzFile_open(f, p) == OpenKind(Kind(f, p), p)

\* Ok(Self {path, entries: None})
Unscanned(p) == [path |-> p, entries |-> None]

\* r.map(wrap): Ok(Self::File(Box::new(..))) / Ok(Self::Dir(..)), or the `?`
FileResult(r) == IF r.ok THEN Ok(FileEntry(r.val)) ELSE r
DirResult(r) == IF r.ok THEN Ok(DirEntry(r.val)) ELSE r

RECURSIVE EzDir_new(_, _, _)

\* a classification that follows symbolic links instead of rejecting them
TryFromType_follows_links(f, q, ft) ==
  IF ft \in FileKinds THEN FileResult(EzFile_open(f, q))
  ELSE IF ft \in DirKinds THEN DirResult(EzDir_new(f, q, FALSE))
  ELSE IF ft = "symlink" THEN Ok(FileEntry(q))
  ELSE io_err

\* a classification that scans a directory child as it constructs it
TryFromType_scans_dirs(f, q, ft) ==
  IF ft \in FileKinds THEN FileResult(EzFile_open(f, q))
  ELSE IF ft \in DirKinds THEN DirResult(EzDir_new(f, q, TRUE))
  ELSE io_err

\* a classification that takes a symbolic link to a directory for a directory
TryFromType_enters_links(f, q, ft) ==
  IF ft \in FileKinds THEN FileResult(EzFile_open(f, q))
  ELSE IF ft \in DirKinds \cup {"symlink"} THEN DirResult(EzDir_new(f, q, FALSE))
  ELSE io_err

\* impl TryFrom<fs::DirEntry> for EzEntry, the entry's file_type being ft
TryFromType(f, q, ft) ==
  IF ft \in FileKinds THEN FileResult(EzFile_open(f, q))
  ELSE IF ft \in DirKinds THEN DirResult(EzDir_new(f, q, FALSE))
  ELSE io_err
EzEntry_try_from(f, q) == TryFromType(f, q, file_type(f, q))

\* a collection that keeps every classified child twice
Kept_twice(r) == IF r.ok THEN <<r.val, r.val>> ELSE << >>

\* .filter_map(|e| e.and_then(EzEntry::try_from).ok())
Kept(r) == IF r.ok THEN <<r.val>> ELSE << >>
RECURSIVE filter_map(_, _)
filter_map(f, ps) ==
  IF ps = << >> THEN << >>
  ELSE Kept(EzEntry_try_from(f, Head(ps))) \o filter_map(f, Tail(ps))

\* fs::read_dir(path)?.filter_map(..).collect(), read_dir having given r
Collected(f, p, r) ==
  IF r.ok THEN Ok([path |-> p, entries |-> Some(filter_map(f, r.val))])
  ELSE Err(r.err)

\* a constructor that ignores the cache flag
EzDir_new_never_scans(f, p, c) ==
  IF is_dir(f, p) THEN Ok(Unscanned(p)) ELSE io_err

\* EzDir::new
EzDir_new(f, p, c) ==
  IF is_dir(f, p)
  THEN (IF c THEN Collected(f, p, read_dir(f, p)) ELSE Ok(Unscanned(p)))
  ELSE io_err

\* EzDir::is_cached
is_cached(d) == d.entries.some

\* EzDir::path
path(d) == d.path

\* a scan that appends to the list it finds instead of replacing it
CacheWith_merges(f, d, r) ==
  IF r.ok
  THEN [dir |-> [d EXCEPT !.entries =
                   Some(d.entries.val \o filter_map(f, r.val))],
        panicked |-> FALSE]
  ELSE [dir |-> d, panicked |-> TRUE]

\* a scan that drops the list of a node it finds scanned
cache_invalidates(f, d) ==
  IF is_cached(d) THEN [dir |-> [d EXCEPT !.entries = None], panicked |-> FALSE]
  ELSE [dir |-> [d EXCEPT !.entries = Some(filter_map(f, read_dir(f, d.path).val))],
        panicked |-> ~read_dir(f, d.path).ok]

\* EzDir::cache, read_dir having given r: the node after the call, and
\* whether unwrap() panicked
CacheWith(f, d, r) ==
  IF r.ok THEN [dir |-> [d EXCEPT !.entries = Some(filter_map(f, r.val))],
                panicked |-> FALSE]
  ELSE [dir |-> d, panicked |-> TRUE]
cache(f, d) == CacheWith(f, d, read_dir(f, d.path))

\* impl IntoIterator for EzDir / &EzDir / &mut EzDir: the entries, or the
\* empty iterator for an unscanned node
into_iter(d) == IF d.entries.some THEN d.entries.val ELSE << >>
iter(d) == IF d.entries.some THEN d.entries.val ELSE << >>
iter_mut(d) == IF d.entries.some THEN d.entries.val ELSE << >>

\* a depth test that is off by one
descend_one_too_deep(curr, max) == curr < max

\* walk: `if curr < max-1 {fill(d, curr + 1, max)}`
descend(curr, max) == curr < max - 1

\* the entry at position i replaced by the Dir that r.dir is now
Put(d, i, r) ==
  [dir |-> [d EXCEPT !.entries.val[i] = DirEntry(r.dir)], panicked |-> r.panicked]

\* walk::fill from position i of `for entry in dir.iter_mut()` on: the node
\* after the loop (or at the panic) and whether a cache() panicked.
RECURSIVE fill_from(_, _, _, _, _)

\* `d.cache(); if curr < max-1 {fill(d, curr + 1, max)}`, d.cache() having given c
fill_dir(f, d, i, curr, max, c) ==
  IF c.panicked THEN [dir |-> d, panicked |-> TRUE]
  ELSE IF descend(curr, max) THEN Put(d, i, fill_from(f, c.dir, 1, curr + 1, max))
  ELSE Put(d, i, c)

\* the loop body for the entry at position i
fill_body(f, d, i, curr, max) ==
  IF iter_mut(d)[i].tag = "Dir"
  THEN fill_dir(f, d, i, curr, max, cache(f, DirOf(iter_mut(d)[i])))
  ELSE [dir |-> d, panicked |-> FALSE]

\* the loop goes on after the body gave r, unless it panicked
fill_next(f, r, i, curr, max) ==
  IF r.panicked THEN r ELSE fill_from(f, r.dir, i, curr, max)

fill_from(f, d, i, curr, max) ==
  IF i > Len(iter_mut(d)) THEN [dir |-> d, panicked |-> FALSE]
  ELSE fill_next(f, fill_body(f, d, i, curr, max), i + 1, curr, max)

\* walk::fill
fill(f, d, curr, max) == fill_from(f, d, 1, curr, max)

\* the bound walk hands to fill
walk_max(depth) == IF depth > 0 THEN depth ELSE USIZE_MAX

\* a walk that scans the root only if it is not cached yet
walk_keeps_cached_root(f, d, depth) ==
  IF is_cached(d) THEN fill(f, d, 0, walk_max(depth))
  ELSE fill(f, CacheWith(f, d, read_dir(f, d.path)).dir, 0, walk_max(depth))

\* EzDir::walk, self.cache() having given c
WalkWith(f, c, depth) ==
  IF c.panicked THEN c ELSE fill(f, c.dir, 0, walk_max(depth))
walk(f, d, depth) == WalkWith(f, cache(f, d), depth)

\* EzDir::get / get_mut
get(d, idx) ==
  IF ~d.entries.some THEN None
  ELSE IF idx < Len(d.entries.val) THEN Some(d.entries.val[idx + 1]) ELSE None
get_mut(d, idx) ==
  IF ~d.entries.some THEN None
  ELSE IF idx < Len(d.entries.val) THEN Some(d.entries.val[idx + 1]) ELSE None

\* a length that takes an unscanned node for an empty one
len_of_unscanned_is_zero(d) == Some(Len(d.entries.val))

\* EzDir::len / is_empty
len(d) == IF d.entries.some THEN Some(Len(d.entries.val)) ELSE None
is_empty(d) == IF d.entries.some THEN Some(Len(d.entries.val) = 0) ELSE None

\* flatten::collect: `for entry in dir`, from position i of the entries l on
RECURSIVE collect_loop(_, _, _)

\* flatten::collect
collect(d, vec) == collect_loop(into_iter(d), 1, vec)

\* a match that puts a file in front of what was collected
collect_entry_prepends(e, vec) ==
  IF e.tag = "File" THEN <<e.path>> \o vec ELSE collect(DirOf(e), vec)

\* the match on one entry
collect_entry(e, vec) ==
  IF e.tag = "File" THEN Append(vec, e.path) ELSE collect(DirOf(e), vec)

collect_loop(l, i, vec) ==
  IF i > Len(l) THEN vec ELSE collect_loop(l, i + 1, collect_entry(l[i], vec))

\* EzDir::flatten: the paths of the EzFiles returned
flatten(d) == collect(d, << >>)

\* impl Display for EzDir: the lines written, one path each.
\* `for entry in self`, from position i of the entries l on
RECURSIVE fmt_loop(_, _, _)

\* Display::fmt for an EzDir, out being what the formatter holds already
fmt(d, out) == fmt_loop(iter(d), 1, out)

\* a rendering that writes a Dir's path and nothing of its entries
fmt_entry_flat(e, out) == Append(out, e.path)

\* the match on one entry: writeln!("{}", file.path()) or
\* write!("{}\n{}", dir.path(), dir)
fmt_entry(e, out) ==
  IF e.tag = "File" THEN Append(out, e.path)
  ELSE fmt(DirOf(e), Append(out, e.path))

fmt_loop(l, i, out) ==
  IF i > Len(l) THEN out ELSE fmt_loop(l, i + 1, fmt_entry(l[i], out))

\* dir.to_string(): Ok(()) with the lines written
to_string(d) == Ok(fmt(d, << >>))

\* a flatten_all that walks one level only
flatten_all_one_level(f, d) ==
  IF walk(f, d, 1).panicked THEN [val |-> << >>, panicked |-> TRUE]
  ELSE [val |-> flatten(walk(f, d, 1).dir), panicked |-> FALSE]

\* EzDir::flatten_all, dir.walk(0) having given w
FlattenWalked(w) ==
  IF w.panicked THEN [val |-> << >>, panicked |-> TRUE]
  ELSE [val |-> flatten(w.dir), panicked |-> FALSE]
flatten_all(f, d) == FlattenWalked(walk(f, d, 0))

\* ------------------------------------------------------------------ EzFile
Bytes == 0..MaxByte
Contents == UNION {[1..n -> Bytes] : n \in 0..MaxLen}
Min(a, b) == IF a < b THEN a ELSE b

FilePath == "foo.txt"
NoDisk == [exists |-> FALSE, data |-> << >>, ro |-> FALSE]
NoFile == [held |-> FALSE, path |-> "", mode |-> "r", pos |-> 0,
           metadata |-> [len |-> 0, ro |-> FALSE]]

\* the outcome of a call: the result handed back, the EzFile and the disk after
FRes(ret, f, dk) == [ret |-> ret, file |-> f, disk |-> dk]

\* std::fs::File::open(path): read-only, the file must exist
File_open(dk) ==
  IF dk.exists THEN FRes(Ok([mode |-> "r", pos |-> 0]), NoFile, dk)
  ELSE FRes(Err("NotFound"), NoFile, dk)

\* a File::create that leaves the old content in place
File_create_keeps_content(dk) ==
  IF dk.exists /\ dk.ro THEN FRes(Err("PermissionDenied"), NoFile, dk)
  ELSE FRes(Ok([mode |-> "w", pos |-> 0]), NoFile,
            [exists |-> TRUE, data |-> dk.data, ro |-> dk.ro])

\* std::fs::File::create(path): write-only, creates the file or truncates it
File_create(dk) ==
  IF dk.exists /\ dk.ro THEN FRes(Err("PermissionDenied"), NoFile, dk)
  ELSE FRes(Ok([mode |-> "w", pos |-> 0]), NoFile,
            [exists |-> TRUE, data |-> << >>, ro |-> dk.ro])

\* handle.metadata(): the file's length and mode bits now
metadata(dk) == [len |-> Len(dk.data), ro |-> dk.ro]

\* Ok(Self { path, handle, metadata }), or the error of the platform's open
Wrap(r) ==
  IF r.ret.ok
  THEN FRes(Ok(0), [held |-> TRUE, path |-> FilePath, mode |-> r.ret.val.mode,
                    pos |-> r.ret.val.pos, metadata |-> metadata(r.disk)],
            r.disk)
  ELSE r

\* EzFile::open, EzFile::create
open(dk) == Wrap(File_open(dk))
create(dk) == Wrap(File_create(dk))

\* a mode switch that takes a new metadata snapshot with the new handle
Rehandle_refreshes_metadata(f, dk, r) ==
  IF r.ret.ok
  THEN FRes(Ok(0), [f EXCEPT !.mode = r.ret.val.mode, !.pos = r.ret.val.pos,
                             !.metadata = metadata(r.disk)],
            r.disk)
  ELSE FRes(r.ret, f, dk)

\* self.handle = ...?: the new handle replaces the old one, or the error
\* returns with the old handle kept
Rehandle(f, dk, r) ==
  IF r.ret.ok
  THEN FRes(Ok(0), [f EXCEPT !.mode = r.ret.val.mode, !.pos = r.ret.val.pos],
            r.disk)
  ELSE FRes(r.ret, f, dk)

\* EzFile::to_write, EzFile::to_read
to_write(f, dk) == Rehandle(f, dk, File_create(dk))
to_read(f, dk) == Rehandle(f, dk, File_open(dk))

\* the bytes a read of at most n bytes at position pos finds
Available(data, pos, n) == SubSeq(data, pos + 1, Min(pos + n, Len(data)))

\* Read::read into a buffer of n bytes: the bytes read, the position advanced
read(f, dk, n) ==
  IF f.mode # "r" THEN FRes(Err("Uncategorized"), f, dk)
  ELSE FRes(Ok(Available(dk.data, f.pos, n)),
            [f EXCEPT !.pos = f.pos + Len(Available(dk.data, f.pos, n))], dk)

\* Read::read_to_end: read, a chunk at a time, until a read returns nothing
RECURSIVE read_to_end_loop(_, _, _)
read_to_end_next(r, dk, acc) ==
  IF ~r.ret.ok THEN r
  ELSE IF r.ret.val = << >> THEN FRes(Ok(acc), r.file, dk)
  ELSE read_to_end_loop(r.file, dk, acc \o r.ret.val)
read_to_end_loop(f, dk, acc) == read_to_end_next(read(f, dk, Chunk), dk, acc)
read_to_end(f, dk) == read_to_end_loop(f, dk, << >>)

\* the file's bytes after buf is written at position pos
Zeros(n) == [i \in 1..n |-> 0]
Upto(data, pos) ==
  IF pos <= Len(data) THEN SubSeq(data, 1, pos)
  ELSE data \o Zeros(pos - Len(data))
WriteAt(data, pos, buf) ==
  Upto(data, pos) \o buf \o SubSeq(data, pos + Len(buf) + 1, Len(data))

\* Write::write, the platform taking the first n bytes of buf
write(f, dk, buf, n) ==
  IF f.mode # "w" THEN FRes(Err("Uncategorized"), f, dk)
  ELSE FRes(Ok(n), [f EXCEPT !.pos = f.pos + n],
            [dk EXCEPT !.data = WriteAt(dk.data, f.pos, SubSeq(buf, 1, n))])

\* Write::write_all: write, a chunk at a time, until the buffer is empty
RECURSIVE write_all(_, _, _)
write_all_next(r, buf) ==
  IF ~r.ret.ok THEN r
  ELSE write_all(r.file, r.disk, SubSeq(buf, r.ret.val + 1, Len(buf)))
write_all(f, dk, buf) ==
  IF buf = << >> THEN FRes(Ok(0), f, dk)
  ELSE write_all_next(write(f, dk, buf, Min(Len(buf), Chunk)), buf)

\* Write::flush: File::flush does nothing
flush(f, dk) == FRes(Ok(0), f, dk)

\* ------------------------------------------------------------------ states
NoDir == [held |-> FALSE, path |-> Root, entries |-> None]
Held(d) == [held |-> TRUE, path |-> d.path, entries |-> d.entries]
Step(op, arg, ret, pre) == [op |-> op, arg |-> arg, ret |-> ret, pre |-> pre]

\* the calls on the EzFile so far are not a prefix of create, write_all(b),
\* to_read, read to end
OffTrail == [phase |-> "off", b |-> << >>, old |-> << >>]
Trail(phase, b, old) == [phase |-> phase, b |-> b, old |-> old]

\* no walk in progress
NoCalls == [state |-> "idle", kind |-> "walk", max |-> 0, stack |-> << >>,
            visited |-> << >>]

NodeCount(f) == Cardinality({p \in Paths : p # Root /\ f[p] # "absent"})

Init ==
  /\ fs = [p \in Paths |-> IF p = Root THEN "dir" ELSE "absent"]
  /\ dir = NoDir
  /\ stale = FALSE
  /\ panicked = FALSE
  /\ last = Step("init", 0, 0, NoDir)
  /\ disk = NoDisk
  /\ file = NoFile
  /\ trail = OffTrail
  /\ calls = NoCalls

\* the program has not started: no EzDir::new yet
Starting == last.op \in {"init", "fs"}

CanCreate(f, p) ==
  /\ p # Root /\ f[p] = "absent" /\ f[Front(p)] = "dir"
  /\ NodeCount(f) < MaxNodes
CanRemove(f, p) ==
  /\ p # Root /\ f[p] # "absent"
  /\ \A c \in Names : Len(p) < MaxDepth => f[p \o <<c>>] = "absent"

\* before the program starts, the filesystem is built up: a child of an
\* existing directory is created
FsCreate(p, k) ==
  /\ Starting /\ CanCreate(fs, p)
  /\ fs' = [fs EXCEPT ![p] = k]
  /\ last' = Step("fs", 0, 0, NoDir)
  /\ UNCHANGED <<dir, stale, panicked>>
  /\ UNCHANGED <<filevars, calls>>

\* ... or a file, a link or an empty directory is removed
FsRemove(p) ==
  /\ Starting /\ CanRemove(fs, p)
  /\ fs' = [fs EXCEPT ![p] = "absent"]
  /\ last' = Step("fs", 0, 0, NoDir)
  /\ UNCHANGED <<dir, stale, panicked>>
  /\ UNCHANGED <<filevars, calls>>

\* while the node is held, another process changes the filesystem, at most
\* once between two scans of the node
OtherCreate(p, k) ==
  /\ ~panicked /\ dir.held /\ ~stale /\ CanCreate(fs, p)
  /\ fs' = [fs EXCEPT ![p] = k]
  /\ stale' = TRUE
  /\ last' = Step("other", 0, 0, NoDir)
  /\ UNCHANGED <<dir, panicked>>
  /\ UNCHANGED <<filevars, calls>>
OtherRemove(p) ==
  /\ ~panicked /\ dir.held /\ ~stale /\ CanRemove(fs, p)
  /\ fs' = [fs EXCEPT ![p] = "absent"]
  /\ stale' = TRUE
  /\ last' = Step("other", 0, 0, NoDir)
  /\ UNCHANGED <<dir, panicked>>
  /\ UNCHANGED <<filevars, calls>>

\* let dir = EzDir::new(p, c)
New(p, c) ==
  /\ Starting
  /\ LET r == EzDir_new(fs, p, c) IN
     /\ dir' = IF r.ok THEN Held(r.val) ELSE NoDir
     /\ last' = Step("new", <<p, c>>, r, NoDir)
  /\ stale' = FALSE
  /\ UNCHANGED <<fs, panicked>>
  /\ UNCHANGED <<filevars, calls>>

\* dir.cache()
Cache ==
  /\ ~panicked /\ dir.held
  /\ LET r == cache(fs, dir) IN
     /\ dir' = r.dir
     /\ panicked' = r.panicked
     /\ stale' = (stale /\ r.panicked)
  /\ last' = Step("cache", 0, 0, dir)
  /\ UNCHANGED fs
  /\ UNCHANGED <<filevars, calls>>

\* dir.walk(depth)
Walk(depth) ==
  /\ ~panicked /\ dir.held
  /\ LET r == walk(fs, dir, depth) IN
     /\ dir' = r.dir
     /\ panicked' = r.panicked
     /\ stale' = (stale /\ r.panicked)
  /\ last' = Step("walk", depth, 0, dir)
  /\ UNCHANGED fs
  /\ UNCHANGED <<filevars, calls>>

\* dir.get(idx), dir.get_mut(idx), dir.len(), dir.is_empty()
Get(idx) ==
  /\ ~panicked /\ dir.held
  /\ last' = Step("get", idx, get(dir, idx), NoDir)
  /\ UNCHANGED <<fs, dir, stale, panicked>>
  /\ UNCHANGED <<filevars, calls>>
GetMut(idx) ==
  /\ ~panicked /\ dir.held
  /\ last' = Step("get_mut", idx, get_mut(dir, idx), NoDir)
  /\ UNCHANGED <<fs, dir, stale, panicked>>
  /\ UNCHANGED <<filevars, calls>>
LenOp ==
  /\ ~panicked /\ dir.held
  /\ last' = Step("len", 0, len(dir), NoDir)
  /\ UNCHANGED <<fs, dir, stale, panicked>>
  /\ UNCHANGED <<filevars, calls>>
IsEmpty ==
  /\ ~panicked /\ dir.held
  /\ last' = Step("is_empty", 0, is_empty(dir), NoDir)
  /\ UNCHANGED <<fs, dir, stale, panicked>>
  /\ UNCHANGED <<filevars, calls>>

\* for entry in dir.iter() / dir.iter_mut(): the entries yielded
Iter ==
  /\ ~panicked /\ dir.held
  /\ last' = Step("iter", 0, iter(dir), NoDir)
  /\ UNCHANGED <<fs, dir, stale, panicked>>
  /\ UNCHANGED <<filevars, calls>>
IterMut ==
  /\ ~panicked /\ dir.held
  /\ last' = Step("iter_mut", 0, iter_mut(dir), NoDir)
  /\ UNCHANGED <<fs, dir, stale, panicked>>
  /\ UNCHANGED <<filevars, calls>>

\* format!("{}", dir)
Render ==
  /\ ~panicked /\ dir.held
  /\ last' = Step("render", 0, to_string(dir), dir)
  /\ UNCHANGED <<fs, dir, stale, panicked>>
  /\ UNCHANGED <<filevars, calls>>

\* for entry in dir (consumes the node)
IntoIter ==
  /\ ~panicked /\ dir.held
  /\ last' = Step("into_iter", 0, into_iter(dir), dir)
  /\ dir' = NoDir
  /\ stale' = FALSE
  /\ UNCHANGED <<fs, panicked>>
  /\ UNCHANGED <<filevars, calls>>

\* dir.flatten() (consumes the node)
Flatten ==
  /\ ~panicked /\ dir.held
  /\ last' = Step("flatten", 0, flatten(dir), dir)
  /\ dir' = NoDir
  /\ stale' = FALSE
  /\ UNCHANGED <<fs, panicked>>
  /\ UNCHANGED <<filevars, calls>>

\* dir.flatten_all() (consumes the node)
FlattenAll ==
  /\ ~panicked /\ dir.held
  /\ LET r == flatten_all(fs, dir) IN
     /\ last' = Step("flatten_all", 0, r.val, dir)
     /\ panicked' = r.panicked
  /\ dir' = NoDir
  /\ stale' = FALSE
  /\ UNCHANGED fs
  /\ UNCHANGED <<filevars, calls>>

Next ==
  \/ \E p \in Paths, k \in Kinds \ {"absent"} : FsCreate(p, k)
  \/ \E p \in Paths : FsRemove(p)
  \/ \E p \in Paths, k \in Kinds \ {"absent"} : OtherCreate(p, k)
  \/ \E p \in Paths : OtherRemove(p)
  \/ \E p \in Paths, c \in BOOLEAN : New(p, c)
  \/ Cache
  \/ \E depth \in 0..MaxWalkDepth : Walk(depth)
  \/ Flatten
  \/ FlattenAll

\* scans, and the filesystem changing under the held node
Spec == Init /\ [][Next]_vars

NextAccess ==
  \/ \E p \in Paths, k \in Kinds \ {"absent"} : FsCreate(p, k)
  \/ \E p \in Paths : FsRemove(p)
  \/ \E p \in Paths, c \in BOOLEAN : New(p, c)
  \/ Cache
  \/ \E depth \in 0..MaxWalkDepth : Walk(depth)
  \/ \E idx \in 0..MaxIdx : Get(idx)
  \/ \E idx \in 0..MaxIdx : GetMut(idx)
  \/ LenOp
  \/ IsEmpty
  \/ Iter
  \/ IterMut
  \/ Render
  \/ IntoIter

\* scans and the accessors, on a filesystem that stays as it is
SpecAccess == Init /\ [][NextAccess]_vars

\* before the program starts, the file at the path is given some content
DiskSet(data, ro) ==
  /\ last.op \in {"init", "disk"} /\ ~file.held
  /\ disk' = [exists |-> TRUE, data |-> data, ro |-> ro]
  /\ last' = Step("disk", 0, 0, NoFile)
  /\ UNCHANGED <<file, trail>>
  /\ UNCHANGED <<dirvars, calls>>

\* while the EzFile is held, another process rewrites the file at its path
\* or changes its mode bits
OtherWrite(data, ro) ==
  /\ file.held /\ last.op # "other"
  /\ disk' = [exists |-> TRUE, data |-> data, ro |-> ro]
  /\ last' = Step("other", 0, 0, NoFile)
  /\ trail' = OffTrail
  /\ UNCHANGED file
  /\ UNCHANGED <<dirvars, calls>>

\* the EzFile and the file on disk as a call finds them
Found(f, dk) == [file |-> f, disk |-> dk]

\* the outcome r of a call on the EzFile takes effect
Effect(op, arg, r) ==
  /\ file' = r.file
  /\ disk' = r.disk
  /\ last' = Step(op, arg, r.ret, Found(file, disk))
  /\ UNCHANGED <<dirvars, calls>>

\* let file = EzFile::create(path)
Create ==
  /\ last.op \in {"init", "disk"} /\ ~file.held
  /\ Effect("create", 0, create(disk))
  /\ trail' = IF create(disk).ret.ok
              THEN Trail("created", << >>, disk.data) ELSE OffTrail

\* let file = EzFile::open(path)
Open ==
  /\ last.op \in {"init", "disk"} /\ ~file.held
  /\ Effect("open", 0, open(disk))
  /\ trail' = OffTrail

\* file.write_all(buf)
WriteAll(buf) ==
  /\ file.held /\ file.pos + Len(buf) <= MaxLen
  /\ Effect("write_all", buf, write_all(file, disk, buf))
  /\ trail' = IF trail.phase = "created" /\ write_all(file, disk, buf).ret.ok
              THEN Trail("written", buf, trail.old) ELSE OffTrail

\* file.write(buf), the platform taking n bytes
Write(buf, n) ==
  /\ file.held /\ file.pos + Len(buf) <= MaxLen
  /\ n <= Len(buf) /\ (buf # << >> => n > 0)
  /\ Effect("write", buf, write(file, disk, buf, n))
  /\ trail' = OffTrail

\* file.flush()
Flush ==
  /\ file.held
  /\ Effect("flush", 0, flush(file, disk))
  /\ trail' = OffTrail

\* file.to_read()
ToRead ==
  /\ file.held
  /\ Effect("to_read", 0, to_read(file, disk))
  /\ trail' = IF trail.phase = "written" /\ to_read(file, disk).ret.ok
              THEN Trail("switched", trail.b, trail.old) ELSE OffTrail

\* file.to_write()
ToWrite ==
  /\ file.held
  /\ Effect("to_write", 0, to_write(file, disk))
  /\ trail' = OffTrail

\* file.read(&mut buf) with a buffer of n bytes
Read(n) ==
  /\ file.held
  /\ Effect("read", n, read(file, disk, n))
  /\ trail' = OffTrail

\* file.read_to_end(&mut buf)
ReadToEnd ==
  /\ file.held
  /\ Effect("read_to_end", 0, read_to_end(file, disk))
  /\ trail' = IF trail.phase = "switched"
              THEN Trail("read", trail.b, trail.old) ELSE OffTrail

NextFile ==
  \/ \E data \in Contents, ro \in BOOLEAN : DiskSet(data, ro)
  \/ \E data \in Contents, ro \in BOOLEAN : OtherWrite(data, ro)
  \/ Create
  \/ Open
  \/ \E buf \in Contents : WriteAll(buf)
  \/ \E buf \in Contents, n \in 0..MaxLen : Write(buf, n)
  \/ Flush
  \/ ToRead
  \/ ToWrite
  \/ \E n \in 0..MaxLen : Read(n)
  \/ ReadToEnd

\* one EzFile, from open or create on
SpecFile == Init /\ [][NextFile]_vars

\* ------------------------------------------------- what the claims speak of
\* the entries of a node as a list, and their paths
EntriesOf(d) == d.entries.val
PathsOf(d) == {EntriesOf(d)[i].path : i \in 1..Len(EntriesOf(d))}

\* the children the platform lists under p
Children(p) == {p \o <<c>> : c \in Names}
\* ... that are regular files or directories
ClassifiedChildren(f, p) ==
  {q \in Children(p) : LKind(f, q) \in FileKinds \cup DirKinds}
\* ... that are regular files which open for reading, or directories
UsableChildren(f, p) ==
  {q \in Children(p) : LKind(f, q) \in {"file"} \cup DirKinds}

\* the directory nodes of the tree under d, each with its level (d: lvl)
RECURSIVE NodesBelow(_, _)
NodesBelow(d, lvl) ==
  {[level |-> lvl, node |-> [path |-> d.path, entries |-> d.entries]]}
  \cup UNION {NodesBelow(DirOf(EntriesOf(d)[i]), lvl + 1) :
                i \in {j \in 1..Len(EntriesOf(d)) : EntriesOf(d)[j].tag = "Dir"}}

\* the directories of the filesystem k levels below r that a scan can reach:
\* every directory on the way down can be listed
DirsOnDisk(f, r, k) ==
  {r \o s : s \in {t \in [1..k -> Names] :
      /\ \A j \in 1..(k - 1) : LKind(f, r \o SubSeq(t, 1, j)) = "dir"
      /\ LKind(f, r \o t) \in DirKinds}}

\* the regular files a scan from r can reach and open
FilesOnDisk(f, r) ==
  UNION {{r \o s : s \in {t \in [1..k -> Names] :
      /\ \A j \in 1..(k - 1) : LKind(f, r \o SubSeq(t, 1, j)) = "dir"
      /\ LKind(f, r \o t) = "file"}} : k \in 1..MaxDepth}

\* positions in the tree under d: the index of an entry, then of an entry of
\* that entry, and so on
RECURSIVE Positions(_)
Positions(d) ==
  {<<i>> : i \in 1..Len(EntriesOf(d))}
  \cup UNION {{<<i>> \o s : s \in Positions(DirOf(EntriesOf(d)[i]))} :
                i \in {j \in 1..Len(EntriesOf(d)) : EntriesOf(d)[j].tag = "Dir"}}
RECURSIVE At(_, _)
At(d, s) ==
  IF Len(s) = 1 THEN EntriesOf(d)[s[1]] ELSE At(DirOf(EntriesOf(d)[s[1]]), Tail(s))
FilePositions(d) == {s \in Positions(d) : At(d, s).tag = "File"}
\* s comes before t when the tree is read depth first, in entry order
Before(s, t) ==
  \E k \in 1..Len(s) :
    /\ k <= Len(t) /\ s[k] < t[k]
    /\ \A j \in 1..(k - 1) : s[j] = t[j]
Rank(d, s) == 1 + Cardinality({t \in FilePositions(d) : Before(t, s)})

Completed(op) == last.op = op /\ ~panicked

\* ------------------------------------------------ walk, one step at a time
\* the deepest stack of fill calls a tree of real directories needs
MaxFrames == MaxDepth + 1

\* the EzDir at position pos of the tree under d (<< >>: d itself)
NodeAt(d, pos) ==
  IF pos = << >> THEN [path |-> d.path, entries |-> d.entries]
  ELSE DirOf(At(d, pos))

\* the tree under d with the entry at position s replaced by e
RECURSIVE SetAt(_, _, _)
SetAt(d, s, e) ==
  IF Len(s) = 1 THEN [d EXCEPT !.entries.val[s[1]] = e]
  ELSE [d EXCEPT !.entries.val[s[1]] =
          DirEntry(SetAt(DirOf(d.entries.val[s[1]]), Tail(s), e))]

\* a call of fill(dir, curr, max): the position of dir in the tree, the
\* position the loop `for entry in dir.iter_mut()` is at, and curr
Frame(pos, i, curr) == [pos |-> pos, i |-> i, curr |-> curr]
Top == calls.stack[Len(calls.stack)]
Returned(st) == IF st # << >> THEN "running"
                ELSE IF calls.kind = "walk" THEN "done" ELSE "walked"

\* dir.walk(depth) or dir.flatten_all() is called: self.cache(), then the
\* first call of fill is entered
TravStart(kind, depth) ==
  /\ ~panicked /\ dir.held /\ last.op = "new" /\ calls.state = "idle"
  /\ kind = "flatten_all" => depth = 0
  /\ LET c == cache(fs, dir) IN
       IF c.panicked
       THEN /\ panicked' = TRUE
            /\ calls' = [calls EXCEPT !.state = "panicked", !.kind = kind]
            /\ UNCHANGED dir
       ELSE /\ dir' = c.dir
            /\ calls' = [state |-> "running", kind |-> kind,
                         max |-> walk_max(depth),
                         stack |-> <<Frame(<< >>, 1, 0)>>,
                         visited |-> <<Target(fs, dir.path).at>>]
            /\ UNCHANGED panicked
  /\ last' = Step("call", <<kind, depth>>, 0, dir)
  /\ UNCHANGED <<fs, stale>>
  /\ UNCHANGED filevars

\* the loop of the innermost fill is over: the call returns
FillReturn ==
  /\ calls.state = "running"
  /\ Top.i > Len(iter_mut(NodeAt(dir, Top.pos)))
  /\ calls' = [calls EXCEPT !.stack = Front(calls.stack),
                            !.state = Returned(Front(calls.stack))]
  /\ UNCHANGED <<fs, dir, stale, panicked, last>>
  /\ UNCHANGED filevars

\* the loop of the innermost fill passes an entry that is a File
FillSkip ==
  /\ calls.state = "running"
  /\ Top.i <= Len(iter_mut(NodeAt(dir, Top.pos)))
  /\ iter_mut(NodeAt(dir, Top.pos))[Top.i].tag # "Dir"
  /\ calls' = [calls EXCEPT !.stack[Len(calls.stack)].i = Top.i + 1]
  /\ UNCHANGED <<fs, dir, stale, panicked, last>>
  /\ UNCHANGED filevars

\* the loop of the innermost fill is at a Dir entry: d.cache(), and fill(d,
\* curr + 1, max) is entered if curr < max - 1
FillDir ==
  /\ calls.state = "running"
  /\ Top.i <= Len(iter_mut(NodeAt(dir, Top.pos)))
  /\ iter_mut(NodeAt(dir, Top.pos))[Top.i].tag = "Dir"
  /\ LET e == iter_mut(NodeAt(dir, Top.pos))[Top.i]
         c == cache(fs, DirOf(e))
         on == [calls.stack EXCEPT ![Len(calls.stack)].i = Top.i + 1]
     IN IF c.panicked
        THEN /\ panicked' = TRUE
             /\ calls' = [calls EXCEPT !.state = "panicked", !.stack = << >>]
             /\ UNCHANGED dir
        ELSE /\ dir' = SetAt(dir, Append(Top.pos, Top.i), DirEntry(c.dir))
             /\ descend(Top.curr, calls.max) => Len(calls.stack) < MaxFrames
             /\ calls' = [calls EXCEPT
                  !.visited = Append(@, Target(fs, e.path).at),
                  !.stack = IF descend(Top.curr, calls.max)
                            THEN Append(on, Frame(Append(Top.pos, Top.i), 1,
                                                  Top.curr + 1))
                            ELSE on]
             /\ UNCHANGED panicked
  /\ UNCHANGED <<fs, stale, last>>
  /\ UNCHANGED filevars

\* flatten_all: the walk is over, self.flatten() consumes the tree
ThenFlatten ==
  /\ calls.state = "walked"
  /\ last' = Step("flatten_all", 0, flatten(dir), dir)
  /\ dir' = NoDir
  /\ calls' = [calls EXCEPT !.state = "done"]
  /\ UNCHANGED <<fs, stale, panicked>>
  /\ UNCHANGED filevars

NextWalk ==
  \/ \E p \in Paths, k \in Kinds \ {"absent"} : FsCreate(p, k)
  \/ \E p \in Paths : FsRemove(p)
  \/ \E p \in Paths, c \in BOOLEAN : New(p, c)
  \/ \E depth \in 0..MaxWalkDepth : TravStart("walk", depth)
  \/ TravStart("flatten_all", 0)
  \/ FillReturn
  \/ FillSkip
  \/ FillDir
  \/ ThenFlatten

\* one walk or flatten_all, the thread running it to the end
SpecWalk ==
  /\ Init /\ [][NextWalk]_vars
  /\ WF_calls(FillReturn) /\ WF_calls(FillSkip) /\ WF_calls(FillDir)
  /\ WF_calls(ThenFlatten)

\* -------------------------------------------------------------------- C1
\* C1: walk(d) on a constructed node whose own directory can be listed never
\* fails as a whole: an unscannable subdirectory is absorbed, no panic.
C1_WalkAbsorbsFailures ==
  (last.op = "walk" /\ Kind(fs, dir.path) = "dir") => ~panicked

\* -------------------------------------------------------------------- C2
\* C2: after walk(n), n > 0, the root and every directory down to level n are
\* scanned and the directory entries at level n+1 are present and unscanned;
\* after walk(0) every directory under the root is scanned.  The directory
\* entries at each of these levels are the directories on disk at that level.
C2_WalkDepth ==
  Completed("walk") =>
    /\ is_cached(dir)
    /\ \A x \in NodesBelow(dir, 0) :
         /\ (last.arg = 0 \/ x.level <= last.arg) => is_cached(x.node)
         /\ (last.arg > 0 /\ x.level = last.arg + 1) => ~is_cached(x.node)
         /\ (last.arg > 0) => x.level <= last.arg + 1
    /\ \A k \in 1..(MaxDepth + 1) :
         (last.arg = 0 \/ k <= last.arg + 1) =>
           {x.node.path : x \in {y \in NodesBelow(dir, 0) : y.level = k}}
             = DirsOnDisk(fs, dir.path, k)

C2_Witness ==
  /\ Completed("walk") /\ last.arg = 2
  /\ \E x \in NodesBelow(dir, 0) : x.level = 3 /\ ~is_cached(x.node)
  /\ \E x \in NodesBelow(dir, 0) : x.level = 2 /\ is_cached(x.node)

\* -------------------------------------------------------------------- C3
\* C3: whatever the node held before (nothing, one level, a partial walk,
\* stale entries), flatten_all() returns each regular file that can be
\* reached from the node's path and opened, once.
C3_FlattenAllComplete ==
  Completed("flatten_all") =>
    /\ {last.ret[i] : i \in 1..Len(last.ret)} = FilesOnDisk(fs, last.pre.path)
    /\ Len(last.ret) = Cardinality(FilesOnDisk(fs, last.pre.path))

C3_Witness ==
  /\ Completed("flatten_all")
  /\ is_cached(last.pre)
  /\ \E i \in 1..Len(last.ret) : Len(last.ret[i]) = Len(last.pre.path) + 2
  /\ \E i \in 1..Len(last.ret) :
       \A s \in FilePositions(last.pre) : At(last.pre, s).path # last.ret[i]

\* -------------------------------------------------------------------- C4
\* C4: flatten() returns the File entries the tree holds at the call, depth
\* first in entry order (a subdirectory's files at the subdirectory's place
\* among its siblings); an unscanned subdirectory gives nothing, and the
\* filesystem is not read.
C4_FlattenHeld ==
  (last.op = "flatten") =>
    /\ Len(last.ret) = Cardinality(FilePositions(last.pre))
    /\ \A s \in FilePositions(last.pre) :
         last.ret[Rank(last.pre, s)] = At(last.pre, s).path

C4_Witness ==
  /\ last.op = "flatten"
  /\ Len(last.ret) = 2
  /\ Len(last.ret[1]) > Len(last.ret[2])
  /\ FilesOnDisk(fs, last.pre.path) # {last.ret[i] : i \in 1..Len(last.ret)}

\* -------------------------------------------------------------------- C5
\* C5 as stated: new(path, cache) fails when path is no directory and
\* succeeds whenever it is one, with is_cached() equal to the flag.
C5_NewAlwaysSucceedsOnDir ==
  (last.op = "new") =>
    /\ last.ret.ok <=> (Kind(fs, last.arg[1]) \in DirKinds)
    /\ last.ret.ok => (dir.held /\ is_cached(dir) = last.arg[2])

\* C5 amended: new(path, cache) fails when path is no directory, and when
\* cache is true and the directory cannot be listed; otherwise it succeeds
\* with is_cached() equal to the flag.
C5_NewSucceedsOnListableDir ==
  (last.op = "new") =>
    /\ last.ret.ok <=>
         /\ Kind(fs, last.arg[1]) \in DirKinds
         /\ (last.arg[2] => Kind(fs, last.arg[1]) = "dir")
    /\ last.ret.ok =>
         (dir.held /\ dir.path = last.arg[1] /\ is_cached(dir) = last.arg[2])
    /\ ~last.ret.ok => ~dir.held

C5_Witness ==
  /\ last.op = "new" /\ last.arg[2]
  /\ Kind(fs, last.arg[1]) = "nodir"
  /\ ~last.ret.ok

\* -------------------------------------------------------------------- C6
\* C6: cache() cannot fail as a whole: it completes and leaves the node
\* scanned, whatever the filesystem holds.
C6_CacheNeverFails ==
  (last.op = "cache") => (~panicked /\ is_cached(dir))

C8_CacheReplaces ==
  Completed("cache") =>
    /\ \A i \in 1..Len(EntriesOf(last.pre)) :
         (EntriesOf(last.pre)[i].path \in PathsOf(dir))
           => LKind(fs, EntriesOf(last.pre)[i].path) # "absent"
    /\ \A q \in PathsOf(dir) : LKind(fs, q) # "absent"
    /\ \A q \in UsableChildren(fs, dir.path) : q \in PathsOf(dir)
    /\ \A i, j \in 1..Len(EntriesOf(dir)) :
         (EntriesOf(dir)[i].path = EntriesOf(dir)[j].path) => i = j

C8_Witness ==
  /\ Completed("cache")
  /\ is_cached(last.pre)
  /\ \E i \in 1..Len(EntriesOf(last.pre)) :
       EntriesOf(last.pre)[i].path \notin PathsOf(dir)
  /\ EntriesOf(dir) # << >>

\* -------------------------------------------------------------------- C9
\* C9: on an unscanned node len() and is_empty() give None, get(i) and
\* get_mut(i) give None for every i, and the three iterations yield nothing;
\* on a scanned node get(i) is the entry at position i when i < len(), and
\* None otherwise.
C9_Accessors ==
  /\ (last.op \in {"len", "is_empty", "get", "get_mut"} /\ ~is_cached(dir))
       => ~last.ret.some
  /\ (last.op \in {"iter", "iter_mut"} /\ ~is_cached(dir)) => last.ret = << >>
  /\ (last.op = "into_iter" /\ ~is_cached(last.pre)) => last.ret = << >>
  /\ (last.op \in {"get", "get_mut"} /\ is_cached(dir)) =>
       IF last.arg < Len(EntriesOf(dir))
       THEN last.ret = Some(EntriesOf(dir)[last.arg + 1])
       ELSE ~last.ret.some

C9_Witness ==
  /\ last.op = "len" /\ ~is_cached(dir) /\ last.ret = None
  /\ ClassifiedChildren(fs, dir.path) # {}

\* C10: create(path), then write_all(b), then to_read(), then reading to the
\* end of the file returns exactly b, whatever the file held before.
C10_RoundTrip ==
  trail.phase = "read" => last.ret = Ok(trail.b)

\* the round trip was made with a non-empty b over a file that held more
\* bytes, and different ones, before create
C10_Witness ==
  /\ trail.phase = "read" /\ last.op = "read_to_end"
  /\ Len(trail.b) > 0
  /\ Len(trail.old) > Len(trail.b)
  /\ SubSeq(trail.old, 1, Len(trail.b)) # trail.b

\* C11: to_write() on a handle that is already write-only does nothing: the
\* content on disk and the handle's write position are as before the call.
C11_ToWriteOnWriteOnlyIsNoOp ==
  (last.op = "to_write" /\ last.pre.file.mode = "w") =>
    /\ disk.data = last.pre.disk.data
    /\ file.pos = last.pre.file.pos

\* C12: to_read() on a handle that is already read-only does nothing: the
\* read position, and so what the next read returns, is as before the call.
C12_ToReadOnReadOnlyIsNoOp ==
  (last.op = "to_read" /\ last.pre.file.mode = "r") =>
    /\ file.pos = last.pre.file.pos
    /\ read(file, disk, MaxLen).ret = read(last.pre.file, last.pre.disk, MaxLen).ret

\* C13: the metadata snapshot and the path of an EzFile are those of open() /
\* create(): no read, write, flush, to_read or to_write changes them, nor
\* does a change of the file on disk.
C13_SnapshotFixed ==
  [][(file.held /\ file'.held) =>
       (file'.metadata = file.metadata /\ file'.path = file.path)]_vars

\* a mode switch has replaced the handle of an EzFile whose snapshot no longer
\* describes the file on disk
C13_Witness ==
  /\ file.held
  /\ last.op \in {"to_read", "to_write"} /\ last.ret.ok
  /\ file.metadata # metadata(disk)
  /\ file.metadata # metadata(last.pre.disk)

\* C14: every error that EzDir::new, EzFile::open, EzFile::create, to_read
\* or to_write returns to the caller is of the kind ErrorKind::Other.
C14_ErrorsAreOther ==
  (last.op \in {"new", "open", "create", "to_read", "to_write"} /\ ~last.ret.ok)
    => last.ret.err = "Other"

\* -------------------------------------------------------------------- C15
IsFile(e) == e.tag = "File"
\* the paths of the File entries of d's own list, in list order
TopFiles(d) == SelectSeq(EntriesOf(d), IsFile)
ShallowScanned ==
  \/ Completed("cache")
  \/ (last.op = "new" /\ last.ret.ok /\ last.arg[2])

\* C15: right after a shallow scan, new(path, true) or cache(), every Dir
\* entry of the node's list is unscanned, also when the node had been walked
\* before; a flatten() that follows returns the top-level files only.
C15_ShallowScanOneLevel ==
  ShallowScanned =>
    /\ is_cached(dir)
    /\ \A i \in 1..Len(EntriesOf(dir)) :
         EntriesOf(dir)[i].tag = "Dir" => ~is_cached(DirOf(EntriesOf(dir)[i]))
    /\ Len(flatten(dir)) = Len(TopFiles(dir))
    /\ \A i \in 1..Len(TopFiles(dir)) : flatten(dir)[i] = TopFiles(dir)[i].path

\* cache() on a walked node: before the call a Dir entry held a scanned list
\* with a file in it, and the directory is still an entry after the call
C15_Witness ==
  /\ Completed("cache")
  /\ \E i \in 1..Len(EntriesOf(last.pre)), k \in 1..Len(EntriesOf(dir)) :
       /\ EntriesOf(last.pre)[i].tag = "Dir"
       /\ is_cached(DirOf(EntriesOf(last.pre)[i]))
       /\ TopFiles(DirOf(EntriesOf(last.pre)[i])) # << >>
       /\ EntriesOf(dir)[k].tag = "Dir"
       /\ EntriesOf(dir)[k].path = EntriesOf(last.pre)[i].path
  /\ TopFiles(dir) # << >>

\* -------------------------------------------------------------------- C16
\* C16: walk(d) rescans the root, cached or not, and every directory it
\* visits: the tree after the call is the one a walk(d) of a node that was
\* never scanned gives on the filesystem as it is, nothing of the old tree
\* kept; a second walk(d) on the unchanged filesystem gives the same tree.
C16_WalkRescans ==
  Completed("walk") =>
    /\ dir.entries = walk(fs, Unscanned(dir.path), last.arg).dir.entries
    /\ \A n \in NodesBelow(dir, 0) :
         is_cached(n.node) =>
           PathsOf(n.node) = UsableChildren(fs, n.node.path)
    /\ ~walk(fs, dir, last.arg).panicked
    /\ walk(fs, dir, last.arg).dir.path = dir.path
    /\ walk(fs, dir, last.arg).dir.entries = dir.entries

\* the walk found the node scanned, with a list that the filesystem had
\* outgrown or shrunk below, and a scanned subdirectory in it
C16_Witness ==
  /\ Completed("walk")
  /\ is_cached(last.pre)
  /\ PathsOf(last.pre) # PathsOf(dir)
  /\ \E i \in 1..Len(EntriesOf(last.pre)) :
       /\ EntriesOf(last.pre)[i].tag = "Dir"
       /\ is_cached(DirOf(EntriesOf(last.pre)[i]))
  /\ \E i \in 1..Len(EntriesOf(dir)) :
       /\ EntriesOf(dir)[i].tag = "Dir"
       /\ is_cached(DirOf(EntriesOf(dir)[i]))

\* -------------------------------------------------------------------- C17
\* C17: for the node the caller holds, is_cached() never goes from true to
\* false under cache, walk, get, get_mut, iteration and rendering.
C17_NoInvalidation ==
  [][(dir.held /\ dir'.held /\ is_cached(dir)) => is_cached(dir')]_vars

\* a scanned node was scanned again, by cache or by walk
C17_Witness ==
  /\ last.op \in {"cache", "walk"}
  /\ is_cached(last.pre) /\ dir.held /\ is_cached(dir)
  /\ EntriesOf(dir) # << >>

\* -------------------------------------------------------------------- C19
\* t is written before s: t is an ancestor of s or comes before it
IsPrefix(t, s) == Len(t) < Len(s) /\ SubSeq(s, 1, Len(t)) = t
Line(d, s) == 1 + Cardinality({t \in Positions(d) : IsPrefix(t, s) \/ Before(t, s)})

\* C19: rendering writes one line per entry of the scanned part of the tree,
\* in scan order: a File's path, or a Dir's path followed at once by the
\* lines of its entries; an unscanned Dir gives its path line only; rendering
\* never fails and leaves the tree as it was.
C19_Rendering ==
  last.op = "render" =>
    /\ last.ret.ok
    /\ Len(last.ret.val) = Cardinality(Positions(dir))
    /\ \A s \in Positions(dir) : last.ret.val[Line(dir, s)] = At(dir, s).path
    /\ dir = last.pre

\* a tree with a file after a scanned subdirectory that holds an entry, and
\* an unscanned directory somewhere in it
C19_Witness ==
  /\ last.op = "render"
  /\ \E s \in Positions(dir) :
       /\ Len(s) = 2
       /\ \E t \in FilePositions(dir) : Len(t) = 1 /\ Before(s, t)
  /\ \E s \in Positions(dir) : At(dir, s).tag = "Dir" /\ ~is_cached(DirOf(At(dir, s)))

\* -------------------------------------------------------------------- C20
NoRepeat(l) == \A i, j \in 1..Len(l) : l[i] = l[j] => i = j

\* C20: in every tree built by new, cache and walk, an entry of a node with
\* path P has a path P/<child name>, of a child the platform listed under P
\* (still there unless the filesystem changed since); no two entries of the
\* tree share a path; flatten() and flatten_all() return no path twice.
C20_EntryPaths ==
  /\ dir.held =>
       /\ \A n \in NodesBelow(dir, 0) : PathsOf(n.node) \subseteq Children(n.node.path)
       /\ \A s, t \in Positions(dir) : At(dir, s).path = At(dir, t).path => s = t
       /\ (~stale /\ ~panicked) =>
            \A s \in Positions(dir) : LKind(fs, At(dir, s).path) # "absent"
  /\ (last.op \in {"flatten", "flatten_all"} /\ ~panicked) => NoRepeat(last.ret)

\* a walked tree with entries on two levels was flattened into two files or
\* more, one of them from a subdirectory
C20_Witness ==
  /\ last.op \in {"flatten", "flatten_all"} /\ ~panicked
  /\ Len(last.ret) >= 2
  /\ \E i \in 1..Len(last.ret) : Len(last.ret[i]) >= 2

\* -------------------------------------------------------------------- C18
\* the walk taken step by step ends as EzDir::walk and EzDir::flatten_all,
\* computed in one go, say it does
TraversalAgrees ==
  /\ (calls.state = "done" /\ calls.kind = "walk") =>
       /\ ~walk(fs, last.pre, last.arg[2]).panicked
       /\ dir.entries = walk(fs, last.pre, last.arg[2]).dir.entries
  /\ (calls.state = "done" /\ calls.kind = "flatten_all") =>
       /\ ~flatten_all(fs, last.pre).panicked
       /\ last.ret = flatten_all(fs, last.pre).val
  /\ (calls.state = "panicked" /\ calls.kind = "walk") =>
       walk(fs, NodeAt(last.pre, << >>), last.arg[2]).panicked

Traversing == calls.state \in {"running", "walked"}
Finished == calls.state \in {"done", "panicked"}

\* no entry of the tree that is a Dir is a symbolic link on disk
NoLinkEntered ==
  dir.held => \A s \in Positions(dir) :
                At(dir, s).tag = "Dir" => LKind(fs, At(dir, s).path) \in DirKinds

\* the real directories of the filesystem
RealDirs == {p \in Paths : fs[p] \in DirKinds}

\* what the calls on the stack have left to do: the entries their loops have
\* not passed, and a return each
RECURSIVE Pending(_)
Pending(st) ==
  IF st = << >> THEN 0
  ELSE Len(iter_mut(NodeAt(dir, Head(st).pos))) + 2 - Head(st).i + Pending(Tail(st))

\* a bound on the steps the traversal has left: every real directory not yet
\* scanned may cost a scan and a loop over its entries
Variant ==
  (Cardinality(RealDirs) - Len(calls.visited)) * (MaxWidth + 2)
  + Pending(calls.stack)
  + (IF Traversing THEN 1 ELSE 0)

\* the running traversal can take its next step: there is a call on the
\* stack, and a fill about to be entered finds room on it
CanStep ==
  calls.state = "running" =>
    /\ calls.stack # << >>
    /\ (/\ Top.i <= Len(iter_mut(NodeAt(dir, Top.pos)))
        /\ iter_mut(NodeAt(dir, Top.pos))[Top.i].tag = "Dir"
        /\ ~cache(fs, DirOf(iter_mut(NodeAt(dir, Top.pos))[Top.i])).panicked
        /\ descend(Top.curr, calls.max))
       => Len(calls.stack) < MaxFrames

\* C18: on any finite filesystem, also one where symbolic links point back
\* to an ancestor directory, walk(d) and flatten_all() terminate: a child
\* that is a symbolic link never becomes a Dir entry and is never entered,
\* no real directory is scanned twice, and every step of the traversal
\* lowers a bound that never goes below zero, while a next step is always
\* possible until the traversal has finished.
C18_WalkTerminates ==
  /\ [](NoLinkEntered /\ NoRepeat(calls.visited) /\ Variant >= 0 /\ CanStep)
  /\ [][Traversing => Variant' < Variant]_vars

\* an unbounded traversal ended after scanning a subdirectory that holds a
\* symbolic link back to the root
C18_Witness ==
  /\ calls.state = "done" /\ calls.max = USIZE_MAX
  /\ Len(calls.visited) >= 2
  /\ \E i \in 2..Len(calls.visited), c \in Names :
       /\ Len(calls.visited[i]) < MaxDepth
       /\ fs[Append(calls.visited[i], c)] = "symlink"

====
